---------------------------- MODULE Spec2Model ----------------------------
(***************************************************************************)
(* PHiSeg (src/models/phiseg.py): the Posterior / Prior encoder, the       *)
(* Likelihood decoder and the PHISeg losses.                               *)
(*                                                                         *)
(* Two views of the same program are modelled.                             *)
(*                                                                         *)
(*  - The network view (SpecNet): every tensor is its shape                *)
(*    (channels, height, width); a convolution checks the channel count it *)
(*    was constructed with, pooling and interpolation change the spatial   *)
(*    size as torch does, and Posterior.forward / Likelihood.forward run   *)
(*    one loop iteration per step.                                         *)
(*                                                                         *)
(*  - The loss view (Spec): tensors are small integer-valued arrays, the   *)
(*    outputs of the convolutional networks (whose weights are unknown)    *)
(*    are drawn from finite sets of values a ReLU output can take, and     *)
(*    the arithmetic of the losses is carried out in fixed point.          *)
(***************************************************************************)
EXTENDS Integers, Sequences, FiniteSets, TLC

VARIABLES
    \* ---- network view: construction parameters and call arguments
    num_filters,      \* Posterior.num_filters / Likelihood.num_filters
    is_posterior,     \* Posterior(..., is_posterior=...)
    patch,            \* shape of the image handed to forward
    \* ---- network view: Posterior.forward locals
    pc,               \* position in Posterior.forward / Likelihood.forward
    idx,              \* the running loop variable i
    x,                \* local x of the contracting loop
    blocks,           \* local blocks (skip connections)
    pre_conv,         \* local pre_conv
    z, mu, sigma,     \* the three result lists
    ret,              \* what Posterior.forward returned (None before)
    sampled,          \* history: per sampled level, what its input was built from
    \* ---- network view: Likelihood.forward locals
    post_z, post_c, s,
    lik_ret,          \* what Likelihood.forward returned (None before)
    \* ---- loss view: PHISeg construction arguments
    exponential_weighting,
    init_beta,        \* the beta argument of PHISeg.__init__
    \* ---- loss view: the forward calls made so far
    last_forward,           \* history: training flag and prior run of the latest forward
    last_training_forward,  \* history: posterior run of the latest forward(training=True)
    \* ---- loss view: PHISeg attributes
    posterior_latent_space, posterior_mu, posterior_sigma,
    prior_latent_space, prior_mu, prior_sigma,
    segm_vector,
    loss_dict,
    kl,
    reconstruction,
    s_accumulated,
    reconstruction_loss,
    mean_reconstruction_loss,
    \* ---- loss view: the running elbo / loss call
    lpc,              \* position in PHISeg.elbo
    caller,           \* "elbo" or "loss": the method that was called
    segm,             \* the mask argument
    elbo_beta,        \* the beta argument of elbo
    z_posterior,      \* local z_posterior of elbo
    decoded,          \* history: the maps as Likelihood.forward returned them
    layer_reconstruction,  \* local layer_reconstruction of elbo
    ii,               \* loop variable of residual_multinoulli_loss
    loss_tot,         \* local loss_tot of residual_multinoulli_loss
    totals,           \* history: loss_tot after each iteration
    result,           \* the value the call returned
    \* ---- pure functions applied to drawn inputs
    kl_mu, kl_sigma,  \* the Gaussian handed to KL_two_gauss_with_diag_cov
    kl_out,           \* its divergence from itself
    acc_in,           \* the list handed to accumulate_output
    acc_list,         \* the same list object after the call
    acc_out           \* the value accumulate_output returned

netVars == <<num_filters, is_posterior, patch, pc, idx, x, blocks, pre_conv,
             z, mu, sigma, ret, sampled, post_z, post_c, s, lik_ret>>

attrVars == <<posterior_latent_space, posterior_mu, posterior_sigma,
              prior_latent_space, prior_mu, prior_sigma, segm_vector,
              loss_dict, kl, reconstruction, s_accumulated,
              reconstruction_loss, mean_reconstruction_loss>>

callVars == <<lpc, caller, segm, elbo_beta, z_posterior, decoded,
              layer_reconstruction, ii, loss_tot, totals, result>>

histVars == <<last_forward, last_training_forward>>

lossVars == <<exponential_weighting, init_beta, histVars, attrVars, callVars>>

pureVars == <<kl_mu, kl_sigma, kl_out, acc_in, acc_list, acc_out>>

vars == <<netVars, lossVars, pureVars>>

--------------------------------------------------------------------------
(* Bounds of the model. *)

\* the longest filter list has MaxLevels + 1 entries
MaxLevels == 3

\* the largest height / width of an input patch
MaxSize == 16

--------------------------------------------------------------------------
(* Each view leaves the other views' variables at rest.                    *)

\* an attribute that has not been assigned, a local that has no value
Unset == <<>>

\* a numeric attribute that has not been assigned
NoValue == [unset |-> TRUE]

NetIdle ==
    /\ is_posterior = TRUE
    /\ patch = Unset
    /\ pc = "off"
    /\ idx = 0
    /\ x = Unset
    /\ blocks = <<>>
    /\ pre_conv = Unset
    /\ z = <<>>
    /\ mu = <<>>
    /\ sigma = <<>>
    /\ ret = <<>>
    /\ sampled = <<>>
    /\ post_z = <<>>
    /\ post_c = <<>>
    /\ s = <<>>
    /\ lik_ret = <<>>

AttrsUnset ==
    /\ posterior_latent_space = Unset
    /\ posterior_mu = Unset
    /\ posterior_sigma = Unset
    /\ prior_latent_space = Unset
    /\ prior_mu = Unset
    /\ prior_sigma = Unset
    /\ segm_vector = Unset
    /\ kl = NoValue
    /\ reconstruction = Unset
    /\ s_accumulated = Unset
    /\ reconstruction_loss = NoValue
    /\ mean_reconstruction_loss = NoValue

CallUnset ==
    /\ caller = "none"
    /\ segm = Unset
    /\ elbo_beta = 0
    /\ z_posterior = Unset
    /\ decoded = Unset
    /\ layer_reconstruction = Unset
    /\ ii = 0
    /\ loss_tot = NoValue
    /\ totals = <<>>
    /\ result = NoValue

NoForward ==
    /\ last_forward = Unset
    /\ last_training_forward = Unset

LossIdle ==
    /\ exponential_weighting = TRUE
    /\ init_beta = 0
    /\ NoForward
    /\ AttrsUnset
    /\ loss_dict = <<>>
    /\ CallUnset
    /\ lpc = "off"

PureIdle ==
    /\ kl_mu = Unset
    /\ kl_sigma = Unset
    /\ kl_out = NoValue
    /\ acc_in = Unset
    /\ acc_list = Unset
    /\ acc_out = Unset

--------------------------------------------------------------------------
(* Tensors as shapes. *)

Tensor(c, h, w) == [kind |-> "Tensor", c |-> c, h |-> h, w |-> w]

\* Python's None, as a list entry or a return value
None == [kind |-> "None", c |-> 0, h |-> 0, w |-> 0]

\* an exception raised while computing a tensor
Raised(e) == [kind |-> e, c |-> 0, h |-> 0, w |-> 0]

IsTensor(t) == t.kind = "Tensor"

\* the exception carried by the first argument that is not a tensor
FirstRaised(a, b) == IF ~IsTensor(a) THEN a ELSE b

\* list[k] of a Python list held as a 1-based sequence, negative k included
PyIndex(list, k) == IF k < 0 THEN list[Len(list) + k + 1] ELSE list[k + 1]

\* list[k] = v
PySet(list, k, v) ==
    [list EXCEPT ![IF k < 0 THEN Len(list) + k + 1 ELSE k + 1] = v]

\* [None] * n
NoneList(n) == [j \in 1..n |-> None]

\* nn.Conv2d(in, out, kernel_size, padding) applied to t
Conv2d(t, input_dim, output_dim, kernel, padding) ==
    IF ~IsTensor(t) THEN (IF t.kind = "None" THEN Raised("TypeError") ELSE t)
    ELSE IF t.c # input_dim THEN Raised("RuntimeError")
    ELSE IF t.h + 2 * padding - kernel + 1 < 1
            \/ t.w + 2 * padding - kernel + 1 < 1 THEN Raised("RuntimeError")
    ELSE Tensor(output_dim, t.h + 2 * padding - kernel + 1,
                            t.w + 2 * padding - kernel + 1)

\* AvgPool2d as it would be with ceil_mode left at its default (False)
AvgPool2dFloorMode(t) ==
    IF ~IsTensor(t) THEN (IF t.kind = "None" THEN Raised("TypeError") ELSE t)
    ELSE Tensor(t.c, t.h \div 2, t.w \div 2)

\* nn.AvgPool2d(kernel_size=2, stride=2, padding=0, ceil_mode=True)
AvgPool2d(t) ==
    IF ~IsTensor(t) THEN (IF t.kind = "None" THEN Raised("TypeError") ELSE t)
    ELSE Tensor(t.c, (t.h + 1) \div 2, (t.w + 1) \div 2)

\* nn.functional.interpolate(t, mode='bilinear', scale_factor=2); None has no
\* attribute dim
Interpolate2(t) ==
    IF ~IsTensor(t) THEN (IF t.kind = "None" THEN Raised("AttributeError") ELSE t)
    ELSE Tensor(t.c, 2 * t.h, 2 * t.w)

\* nn.functional.interpolate(t, size=[128, 128], mode='nearest')
InterpolateTo128(t) ==
    IF ~IsTensor(t) THEN (IF t.kind = "None" THEN Raised("AttributeError") ELSE t)
    ELSE Tensor(t.c, 128, 128)

\* depth convolutions input_dim -> output_dim -> ... -> output_dim
RECURSIVE ConvStack(_, _, _, _, _, _)
ConvStack(t, input_dim, output_dim, kernel, padding, depth) ==
    IF depth = 0 THEN t
    ELSE ConvStack(Conv2d(t, input_dim, output_dim, kernel, padding),
                   output_dim, output_dim, kernel, padding, depth - 1)

\* Conv2DSequence(input_dim, output_dim, kernel, depth).forward(t); the
\* constructor asserts depth >= 1
Conv2DSequence(t, input_dim, output_dim, kernel, depth) ==
    IF depth < 1 THEN Raised("AssertionError")
    ELSE ConvStack(t, input_dim, output_dim, kernel,
                   IF kernel = 3 THEN 1 ELSE 0, depth)

\* DownConvolutionalBlock(input_dim, output_dim, depth, padding=True, pool).forward(t)
\* the constructor raises ValueError for depth < 1
DownConvolutionalBlock(t, input_dim, output_dim, depth, pool) ==
    IF depth < 1 THEN Raised("ValueError")
    ELSE ConvStack(IF pool THEN AvgPool2d(t) ELSE t,
                   input_dim, output_dim, 3, 1, depth)

\* torch.cat([a, b], 1)
Cat(a, b) ==
    IF ~IsTensor(a) /\ a.kind # "None" THEN a
    ELSE IF ~IsTensor(b) /\ b.kind # "None" THEN b
    ELSE IF a.kind = "None" \/ b.kind = "None" THEN Raised("TypeError")
    ELSE IF a.h # b.h \/ a.w # b.w THEN Raised("RuntimeError")
    ELSE Tensor(a.c + b.c, a.h, a.w)

\* UpConvolutionalBlock(input_dim, output_dim).forward(t, bridge)
UpConvolutionalBlock(t, bridge, input_dim, output_dim) ==
    LET up == ConvStack(Interpolate2(t), input_dim, output_dim, 3, 1, 2)
    IN  IF ~IsTensor(up) THEN up
        \* bridge.shape of None
        ELSE IF bridge.kind = "None" THEN Raised("AttributeError")
        ELSE IF ~IsTensor(bridge) THEN bridge
        ELSE IF up.w # bridge.w THEN Raised("AssertionError")
        ELSE IF up.h # bridge.h THEN Raised("AssertionError")
        ELSE Cat(up, bridge)

\* SampleZBlock(input_dim, z_dim0=2, depth).forward(pre_z): <<mu, sigma, z>>
SampleZBlock(pre_z, input_dim, depth) ==
    LET conv   == ConvStack(pre_z, input_dim, input_dim, 3, 1, depth)
        mu_    == Conv2d(conv, input_dim, 2, 1, 0)
        sigma_ == Conv2d(conv, input_dim, 2, 1, 0)
        \* z = mu + sigma * torch.randn_like(sigma)
        z_     == IF ~IsTensor(mu_) \/ ~IsTensor(sigma_) THEN FirstRaised(mu_, sigma_)
                  ELSE IF mu_ # sigma_ THEN Raised("RuntimeError")
                  ELSE mu_
    IN  <<mu_, sigma_, z_>>

--------------------------------------------------------------------------
(* The module lists built by the constructors, from num_filters.          *)
(* NF(k) is num_filters[k] with Python's 0-based index.                    *)

NF(k) == num_filters[k + 1]

latent_levels == Len(num_filters) - 1

\* PHISeg passes input_channels unchanged to Posterior, Prior and Likelihood
input_channels == 1

\* Posterior.input_channels after "self.input_channels += 1"
encoder_channels == IF is_posterior THEN input_channels + 1 ELSE input_channels

\* Posterior.contracting_path, one entry per i in range(len(num_filters))
contracting_path ==
    [n \in 1..Len(num_filters) |->
        [input_dim  |-> IF n - 1 = 0 THEN encoder_channels ELSE NF(n - 2),
         output_dim |-> NF(n - 1),
         pool       |-> (n - 1 # 0)]]

\* Posterior.upsampling_path, one entry per i in range(latent_levels-1, 0, -1)
upsampling_path ==
    [n \in 1..(latent_levels - 1) |->
        [input_dim |-> 2, output_dim |-> NF(0) * 2]]

\* sample_z_path as it would be without the coarsest level's own input width
sample_z_path_no_coarsest_case ==
    [n \in 1..(Len(num_filters) - 1) |->
        LET i == (Len(num_filters) - 1) - (n - 1)
        IN  [input_dim |-> 2 * NF(0) + NF(i),
             depth |-> IF i = Len(num_filters) - 1 THEN 0 ELSE 2]]

\* Posterior.sample_z_path, entry n (0-based) built for i = latent_levels - n
sample_z_path ==
    [n \in 1..latent_levels |->
        LET i == latent_levels - (n - 1)
        IN  IF i = latent_levels
            THEN [input_dim |-> NF(i), depth |-> 0]
            ELSE [input_dim |-> 2 * NF(0) + NF(i), depth |-> 2]]

\* Likelihood.likelihood_ups_path, entry n (0-based) built for i = latent_levels - n
likelihood_ups_path ==
    [n \in 1..latent_levels |->
        LET i == latent_levels - (n - 1)
        IN  [input_dim |-> 2, output_dim |-> NF(i)]]

\* Likelihood.likelihood_post_ups_path
likelihood_post_ups_path ==
    [n \in 1..latent_levels |->
        LET i == latent_levels - (n - 1)
        IN  [input_dim |-> NF(i), output_dim |-> NF(i - 1)]]

\* likelihood_post_c_path as it would be with the upsampled state's width
\* taken from the level below instead of the level itself
likelihood_post_c_path_shifted ==
    [n \in 1..(latent_levels - 1) |->
        LET i == latent_levels - 1 - (n - 1)
        IN  [input_dim |-> NF(i + 1) + NF(i - 1), output_dim |-> NF(i - 1)]]

\* Likelihood.likelihood_post_c_path, entry n (0-based) built for i = latent_levels-1-n
likelihood_post_c_path ==
    [n \in 1..(latent_levels - 1) |->
        LET i == latent_levels - 1 - (n - 1)
        IN  [input_dim |-> NF(i) + NF(i - 1), output_dim |-> NF(i - 1)]]

\* num_classes as train_model.py constructs the model
num_classes == 2

\* Likelihood.s_layer, entry n (0-based) built for i = latent_levels - n
s_layer ==
    [n \in 1..latent_levels |->
        LET i == latent_levels - (n - 1)
        IN  [input_dim |-> NF(i - 1), output_dim |-> num_classes]]

--------------------------------------------------------------------------
(* Posterior.forward, one loop iteration per step.                         *)

\* the index as it would be if the loop read the entry it is about to assign
LatentIndexOffByOne(i) == -i - 1

\* the Python index of the z that iteration i of the sampling loop upsamples
LatentIndex(i) == -i

\* the Python index of the skip connection that iteration i concatenates
BridgeIndex(i) == -i

\* z[-i]
UpsampledLatent(i) == PyIndex(z, LatentIndex(i))

\* blocks[-i]
Bridge(i) == PyIndex(blocks, BridgeIndex(i))

\* the 0-based position a Python index k denotes in a list of n entries
Position(n, k) == IF k < 0 THEN n + k ELSE k

\* the 0-based level that iteration i of the sampling loop assigns: index -i-1
SampledLevel(i) == latent_levels - 1 - i

\* pre_conv of iteration i of the sampling loop
SamplingInput(i) ==
    IF i # 0
    THEN UpConvolutionalBlock(UpsampledLatent(i), Bridge(i),
                              upsampling_path[i].input_dim,
                              upsampling_path[i].output_dim)
    ELSE pre_conv

\* forward entered: the mask is concatenated to the patch, the locals are set up
PosteriorCall ==
    /\ pc = "call"
    /\ x' = IF is_posterior THEN Cat(patch, Tensor(1, patch.h, patch.w)) ELSE patch
    /\ blocks' = <<>>
    /\ z' = NoneList(Len(num_filters) - 1)
    /\ sigma' = NoneList(Len(num_filters) - 1)
    /\ mu' = NoneList(Len(num_filters) - 1)
    /\ idx' = 0
    /\ pc' = "contract"
    /\ UNCHANGED <<num_filters, is_posterior, patch, pre_conv, ret, sampled,
                   post_z, post_c, s, lik_ret>>
    /\ UNCHANGED <<lossVars, pureVars>>

\* one iteration of "for i, down in enumerate(self.contracting_path)"
Contract ==
    /\ pc = "contract"
    /\ LET down == contracting_path[idx + 1]
           out  == DownConvolutionalBlock(x, down.input_dim, down.output_dim,
                                          3, down.pool)
           last == (idx = Len(contracting_path) - 1)
       IN  IF ~IsTensor(out)
           THEN /\ pc' = out.kind
                /\ UNCHANGED <<x, blocks, idx, pre_conv>>
           ELSE /\ x' = out
                /\ blocks' = IF ~last THEN Append(blocks, out) ELSE blocks
                /\ pc' = IF last THEN "sample" ELSE "contract"
                /\ idx' = IF last THEN 0 ELSE idx + 1
                /\ pre_conv' = IF last THEN out ELSE pre_conv
    /\ UNCHANGED <<num_filters, is_posterior, patch, z, mu, sigma, ret, sampled,
                   post_z, post_c, s, lik_ret>>
    /\ UNCHANGED <<lossVars, pureVars>>

\* one iteration of "for i, sample_z in enumerate(self.sample_z_path)";
\* after the last one, "del blocks" and the return
Sample ==
    /\ pc = "sample"
    /\ LET pre  == SamplingInput(idx)
           blk  == sample_z_path[idx + 1]
           r    == SampleZBlock(pre, blk.input_dim, blk.depth)
           last == (idx = Len(sample_z_path) - 1)
       IN  IF ~IsTensor(pre)
           THEN /\ pc' = pre.kind
                /\ UNCHANGED <<blocks, idx, pre_conv, z, mu, sigma, ret, sampled>>
           ELSE IF ~IsTensor(r[3])
           THEN /\ pc' = r[3].kind
                /\ pre_conv' = pre
                /\ UNCHANGED <<blocks, idx, z, mu, sigma, ret, sampled>>
           ELSE /\ pre_conv' = pre
                /\ mu' = PySet(mu, -idx - 1, r[1])
                /\ sigma' = PySet(sigma, -idx - 1, r[2])
                /\ z' = PySet(z, -idx - 1, r[3])
                /\ sampled' = Append(sampled,
                       [level  |-> SampledLevel(idx),
                        latent |-> IF idx # 0 THEN UpsampledLatent(idx) ELSE None,
                        from   |-> IF idx # 0
                                   THEN Position(Len(z), LatentIndex(idx))
                                   ELSE -1,
                        stage  |-> IF idx # 0
                                   THEN Position(Len(blocks), BridgeIndex(idx))
                                   ELSE Len(contracting_path) - 1,
                        bridge |-> IF idx # 0 THEN Bridge(idx) ELSE x,
                        input  |-> pre])
                /\ idx' = idx + 1
                /\ pc' = IF last THEN "returned" ELSE "sample"
                /\ blocks' = IF last THEN <<>> ELSE blocks
                /\ ret' = IF last THEN <<z', mu', sigma'>> ELSE ret
    /\ UNCHANGED <<num_filters, is_posterior, patch, x, post_z, post_c, s, lik_ret>>
    /\ UNCHANGED <<lossVars, pureVars>>

--------------------------------------------------------------------------
(* Likelihood.forward(z) on the returned latents, one iteration per step.  *)

\* forward entered: the three lists of None
LikelihoodCall ==
    /\ pc = "returned"
    /\ s' = NoneList(latent_levels)
    /\ post_z' = NoneList(latent_levels)
    /\ post_c' = NoneList(latent_levels)
    /\ idx' = 0
    /\ pc' = "ups"
    /\ UNCHANGED <<num_filters, is_posterior, patch, x, blocks, pre_conv,
                   z, mu, sigma, ret, sampled, lik_ret>>
    /\ UNCHANGED <<lossVars, pureVars>>

\* post_z[-i-1] of iteration i of the first loop
DecodedLatent(i) ==
    Conv2DSequence(
        Interpolate2(
            Conv2DSequence(PyIndex(z, -i - 1),
                           likelihood_ups_path[i + 1].input_dim,
                           likelihood_ups_path[i + 1].output_dim, 3, 2)),
        likelihood_post_ups_path[i + 1].input_dim,
        likelihood_post_ups_path[i + 1].output_dim, 3, 1)

\* one iteration of "for i in range(self.latent_levels)"; after the last one,
\* post_c[latent_levels - 1] = post_z[latent_levels - 1]
LikelihoodUps ==
    /\ pc = "ups"
    /\ LET out  == DecodedLatent(idx)
           last == (idx = latent_levels - 1)
       IN  IF ~IsTensor(out)
           THEN /\ pc' = out.kind
                /\ UNCHANGED <<idx, post_z, post_c>>
           ELSE /\ post_z' = PySet(post_z, -idx - 1, out)
                /\ post_c' = IF last
                             THEN PySet(post_c, latent_levels - 1,
                                        PyIndex(post_z', latent_levels - 1))
                             ELSE post_c
                \* reversed(range(latent_levels - 1)) starts at latent_levels - 2
                /\ pc' = IF ~last THEN "ups"
                         ELSE IF latent_levels - 1 > 0 THEN "concat" ELSE "logits"
                /\ idx' = IF ~last THEN idx + 1
                          ELSE IF latent_levels - 1 > 0 THEN latent_levels - 2 ELSE 0
    /\ UNCHANGED <<num_filters, is_posterior, patch, x, blocks, pre_conv,
                   z, mu, sigma, ret, sampled, s, lik_ret>>
    /\ UNCHANGED <<lossVars, pureVars>>

\* post_c[i] of iteration i of the second loop
FusedFeatures(i) ==
    LET ups_below == Interpolate2(PyIndex(post_c, i + 1))
        mine      == PyIndex(post_z, i)
        block     == PyIndex(likelihood_post_c_path, -i - 1)
    IN  IF ~IsTensor(ups_below) \/ ~IsTensor(mine) THEN FirstRaised(ups_below, mine)
        ELSE IF mine.w # ups_below.w THEN Raised("AssertionError")
        ELSE IF mine.h # ups_below.h THEN Raised("AssertionError")
        ELSE Conv2DSequence(Cat(mine, ups_below),
                            block.input_dim, block.output_dim, 3, 2)

\* one iteration of "for i in reversed(range(self.latent_levels - 1))"
LikelihoodConcat ==
    /\ pc = "concat"
    /\ LET out  == FusedFeatures(idx)
           last == (idx = 0)
       IN  IF ~IsTensor(out)
           THEN /\ pc' = out.kind
                /\ UNCHANGED <<idx, post_c>>
           ELSE /\ post_c' = PySet(post_c, idx, out)
                /\ pc' = IF last THEN "logits" ELSE "concat"
                /\ idx' = IF last THEN 0 ELSE idx - 1
    /\ UNCHANGED <<num_filters, is_posterior, patch, x, blocks, pre_conv,
                   z, mu, sigma, ret, sampled, post_z, s, lik_ret>>
    /\ UNCHANGED <<lossVars, pureVars>>

\* s[-i-1] of iteration i of the third loop
LevelLogits(i) ==
    InterpolateTo128(
        Conv2DSequence(PyIndex(post_c, -i - 1),
                       s_layer[i + 1].input_dim, s_layer[i + 1].output_dim, 1, 2))

\* one iteration of "for i, block in enumerate(self.s_layer)"; then the return
LikelihoodLogits ==
    /\ pc = "logits"
    /\ LET out  == LevelLogits(idx)
           last == (idx = Len(s_layer) - 1)
       IN  IF ~IsTensor(out)
           THEN /\ pc' = out.kind
                /\ UNCHANGED <<idx, s, lik_ret>>
           ELSE /\ s' = PySet(s, -idx - 1, out)
                /\ idx' = idx + 1
                /\ pc' = IF last THEN "done" ELSE "logits"
                /\ lik_ret' = IF last THEN s' ELSE lik_ret
    /\ UNCHANGED <<num_filters, is_posterior, patch, x, blocks, pre_conv,
                   z, mu, sigma, ret, sampled, post_z, post_c>>
    /\ UNCHANGED <<lossVars, pureVars>>

--------------------------------------------------------------------------
(* The network specification: every filter list and patch within bounds.   *)

\* widths a filter list mixes
FilterWidths == {2, 3}

\* filter_channels of the experiment configuration
DefaultFilters == <<32, 64, 128, 192>>

FilterLists ==
    UNION {[1..n -> FilterWidths] : n \in 2..(MaxLevels + 1)}
      \cup (IF Len(DefaultFilters) <= MaxLevels + 1 THEN {DefaultFilters} ELSE {})

\* channel counts of the patch handed in: the configured one and RGB
PatchChannels == {1, 3}

InitNet ==
    /\ num_filters \in FilterLists
    /\ is_posterior \in BOOLEAN
    /\ patch \in {Tensor(c, h, w) : c \in PatchChannels, h \in 1..MaxSize,
                                    w \in 1..MaxSize}
    /\ patch.w \in {patch.h, MaxSize + 1 - patch.h}
    /\ pc = "call"
    /\ idx = 0
    /\ x = None
    /\ blocks = <<>>
    /\ pre_conv = None
    /\ z = <<>>
    /\ mu = <<>>
    /\ sigma = <<>>
    /\ ret = <<>>
    /\ sampled = <<>>
    /\ post_z = <<>>
    /\ post_c = <<>>
    /\ s = <<>>
    /\ lik_ret = <<>>
    /\ LossIdle
    /\ PureIdle

NextNet ==
    \/ PosteriorCall
    \/ Contract
    \/ Sample
    \/ LikelihoodCall
    \/ LikelihoodUps
    \/ LikelihoodConcat
    \/ LikelihoodLogits

SpecNet == InitNet /\ [][NextNet]_vars

--------------------------------------------------------------------------
(* The loss view: numbers.                                                 *)
(*                                                                         *)
(* A loss value is a fixed-point number with four decimals, kept in three  *)
(* limbs of base 1e5:  big * 1e6 + mid * 1e1 + fix * 1e-4  with            *)
(* 0 <= mid < 1e5 and 0 <= fix < 1e5 (the sign is carried by big), so that *)
(* the multiples of 1e10 that a division by the bare stabilizer 1e-10      *)
(* contributes fit next to the decimals.  Tensor entries (mu, sigma,       *)
(* logits) are integers.                                                   *)

\* fixed-point units per 1.0
Unit == 100 * 100

\* the base of a limb
Base == 10 * Unit

\* the number b * 1e6 + m * 1e1 + f * 1e-4 with its carries propagated
Norm(b, m, f) ==
    LET m1 == m + (f \div Base)
    IN  [big |-> b + (m1 \div Base), mid |-> m1 % Base, fix |-> f % Base]

\* the number b * 1e6 + f * 1e-4
Num(b, f) == Norm(b, 0, f)

Zero == Num(0, 0)

Plus(a, b) == Norm(a.big + b.big, a.mid + b.mid, a.fix + b.fix)

\* k * a for an integer k
Times(k, a) == Norm(k * a.big, k * a.mid, k * a.fix)

Neg(a) == Norm(-a.big, -a.mid, -a.fix)

\* a / n for a positive integer n, by long division, the remainder of each
\* limb carried into the next and the last limb rounded to the nearest
Over(a, n) ==
    LET m1 == (a.big % n) * Base + a.mid
        f1 == (m1 % n) * Base + a.fix
    IN  Norm(a.big \div n, m1 \div n, (2 * f1 + n) \div (2 * n))

\* 0.5 * a
Half(a) == Over(a, 2)

\* the sum of a sequence of numbers
RECURSIVE SumNum(_)
SumNum(q) == IF q = <<>> THEN Zero ELSE Plus(Head(q), SumNum(Tail(q)))

\* torch.div(n, d + 1e-10) for integers n >= 0, d >= 0: n / d to four decimals
\* when d >= 1 (the stabilizer changes no decimal kept), n * 1e10 when d = 0
DivStabilized(n, d) ==
    IF d = 0 THEN Num(n * Unit, 0)
    ELSE Num(0, (2 * n * Unit + d) \div (2 * d))

\* torch.log(y + 1e-10) for an integer y >= 0, to four decimals
LogStabilized(y) ==
    Num(0, CASE y = 0  -> -230259
             [] y = 1  -> 0
             [] y = 2  -> 6931
             [] y = 3  -> 10986
             [] y = 4  -> 13863
             [] y = 5  -> 16094
             [] y = 6  -> 17918
             [] y = 7  -> 19459
             [] y = 8  -> 20794
             [] y = 9  -> 21972
             [] y = 10 -> 23026
             [] y = 11 -> 23979
             [] y = 12 -> 24849
             [] y = 13 -> 25649
             [] y = 14 -> 26391
             [] y = 15 -> 27081
             [] y = 16 -> 27726)

\* log(1 + exp(-d)) for an integer d >= 0, to four decimals
Softplus(d) ==
    CASE d = 0  -> 6931
      [] d = 1  -> 3133
      [] d = 2  -> 1269
      [] d = 3  -> 486
      [] d = 4  -> 181
      [] d = 5  -> 67
      [] d = 6  -> 25
      [] d = 7  -> 9
      [] d = 8  -> 3
      [] d = 9  -> 1
      [] OTHER  -> 0

Max(a, b) == IF a >= b THEN a ELSE b

Abs(a) == IF a >= 0 THEN a ELSE -a

--------------------------------------------------------------------------
(* The loss view: the tensor functions of PHISeg.                          *)
(*                                                                         *)
(* A latent tensor (mu, sigma, z of one level) is a sequence of rows, one  *)
(* row per batch element, the row being the tensor flattened from          *)
(* dimension 1.  A logit map is a sequence of pixels (batch and space      *)
(* flattened), each pixel the sequence of its num_classes logits.  A mask  *)
(* is the sequence of the pixels' class indices.                           *)

\* PHISeg.KL_two_gauss_with_diag_cov(mu0, sigma0, mu1, sigma1)
KL_two_gauss_with_diag_cov(mu0, sigma0, mu1, sigma1) ==
    LET sigma0_fs(b, e) == sigma0[b][e] * sigma0[b][e]
        sigma1_fs(b, e) == sigma1[b][e] * sigma0[b][e]
        diff(b, e)      == mu1[b][e] - mu0[b][e]
        term(b, e) ==
            Plus(Plus(DivStabilized(sigma0_fs(b, e) + diff(b, e) * diff(b, e),
                                    sigma1_fs(b, e)),
                      LogStabilized(sigma1_fs(b, e))),
                 Plus(Neg(LogStabilized(sigma0_fs(b, e))), Num(0, -Unit)))
        row(b) == Half(SumNum([e \in 1..Len(mu0[b]) |-> term(b, e)]))
    IN  Over(SumNum([b \in 1..Len(mu0) |-> row(b)]), Len(mu0))

\* cross-entropy of one pixel as it would be without the log-sum-exp term
PixelLossUnnormalized(logits, class) ==
    (logits[(1 - class) + 1] - logits[class + 1]) * Unit

\* -log softmax(logits)[class] of one pixel with two classes
PixelLoss(logits, class) ==
    (Max(logits[1], logits[2]) - logits[class + 1]) * Unit
        + Softplus(Abs(logits[1] - logits[2]))

\* torch.nn.CrossEntropyLoss(reduction='sum')(input, target)
CrossEntropyLoss(input, target) ==
    SumNum([p \in 1..Len(input) |-> Num(0, PixelLoss(input[p], target[p]))])

\* a + b of two logit maps
MapAdd(a, b) == [p \in 1..Len(a) |-> [c \in 1..Len(a[p]) |-> a[p][c] + b[p][c]]]

\* 1 / (1 + exp(-d)) for an integer d, to four decimals
Sigmoid(d) ==
    LET pos(k) == CASE k = 0 -> 5000
                    [] k = 1 -> 7311
                    [] k = 2 -> 8808
                    [] k = 3 -> 9526
                    [] k = 4 -> 9820
                    [] k = 5 -> 9933
                    [] k = 6 -> 9975
                    [] k = 7 -> 9991
                    [] k = 8 -> 9997
                    [] k = 9 -> 9999
                    [] OTHER -> Unit
    IN  IF d >= 0 THEN pos(d) ELSE Unit - pos(-d)

\* torch.nn.functional.softmax over the two classes of every pixel
Softmax(m) ==
    [p \in 1..Len(m) |-> <<Sigmoid(m[p][1] - m[p][2]), Sigmoid(m[p][2] - m[p][1])>>]

\* s_accum after the first n iterations of accumulate_output's loop
RECURSIVE AccumulateFirst(_, _)
AccumulateFirst(output_list, n) ==
    IF n = 0 THEN PyIndex(output_list, -1)
    ELSE MapAdd(AccumulateFirst(output_list, n - 1), PyIndex(output_list, n - 1))

\* accumulate_output as it would be if it started from the first map
AccumulateFromFirst(output_list) ==
    LET n == Len(output_list)
        RECURSIVE acc(_)
        acc(k) == IF k = 0 THEN PyIndex(output_list, 0)
                  ELSE MapAdd(acc(k - 1), PyIndex(output_list, k - 1))
    IN  [s_accum |-> acc(n - 1), output_list |-> PySet(output_list, 0, acc(n - 1))]

\* PHISeg.accumulate_output(output_list) up to the softmax: the value of
\* s_accum, and output_list as the call leaves it.  "s_accum = output_list[-1]"
\* binds the last map itself and "s_accum += ..." adds into it in place, so
\* the list's last entry is s_accum afterwards.
accumulate_output(output_list) ==
    LET s_accum == AccumulateFirst(output_list, Len(output_list) - 1)
    IN  [s_accum |-> s_accum, output_list |-> PySet(output_list, -1, s_accum)]

--------------------------------------------------------------------------
(* The loss view: what the networks return.                                *)
(*                                                                         *)
(* The weights are not modelled.  An encoder's output is one of a family   *)
(* of tables, level by level, of two-element rows (batch of one) with      *)
(* entries a ReLU can output (0 included); the decoder's is one of a       *)
(* family of two-pixel, two-class maps.  The noise of a sample is drawn    *)
(* likewise.                                                               *)

\* the decoder tables
Seeds == {0, 1, 2}

\* the noise seeds of a sample
NoiseSeeds == {-1, 1}

\* the encoder runs: a table and the noise seed of its sample
EncoderRuns == { <<0, 1>>, <<1, -1>>, <<2, 1>> }

Masks == { <<0, 1>>, <<1, 1>> }

BetaArgs == {1, 10}

\* mu of level j (0-based) as encoder table a gives it
EncoderMu(a, j) == << <<(a + j) % 3, (a * (j + 1)) % 2>> >>

\* sigma of level j as encoder table a gives it
EncoderSigma(a, j) == << <<(2 * a + j) % 3, (a + j + 1) % 2>> >>

\* torch.randn_like: the noise of level j under noise seed e
Noise(e, j) == << <<e, (j % 2) * e>> >>

\* mu + sigma * eps, elementwise
Reparameterize(m, sg, eps) ==
    [b \in 1..Len(m) |-> [k \in 1..Len(m[b]) |-> m[b][k] + sg[b][k] * eps[b][k]]]

\* the map of level j as decoder table d gives it
DecodedMap(d, j) ==
    << <<(d * (j + 1)) % 3, d % 2>>, <<(d + j) % 2, (d * j) % 3>> >>

\* Posterior.forward's three lists (z, mu, sigma), index 0 the finest level
EncoderLists(a, e) ==
    LET m  == [n \in 1..latent_levels |-> EncoderMu(a, n - 1)]
        sg == [n \in 1..latent_levels |-> EncoderSigma(a, n - 1)]
    IN  [z     |-> [n \in 1..latent_levels |->
                       Reparameterize(m[n], sg[n], Noise(e, n - 1))],
         mu    |-> m,
         sigma |-> sg]

\* Likelihood.forward's list of maps
DecoderList(d) == [n \in 1..latent_levels |-> DecodedMap(d, n - 1)]

--------------------------------------------------------------------------
(* The loss view: PHISeg.                                                  *)

\* a constructor that stores its beta argument
beta_of_constructor == init_beta

\* self.beta
beta == 10

\* self.KL_divergence_loss_weight
KL_divergence_loss_weight == 1

\* self.residual_multinoulli_loss_weight
residual_multinoulli_loss_weight == 1

\* the loss_dict keys 'KL_divergence_loss_lvl%d' and 'residual_multinoulli_loss_lvl%d'
KLKey(lvl) == <<"KL_divergence_loss_lvl", lvl>>

RMKey(lvl) == <<"residual_multinoulli_loss_lvl", lvl>>

\* d[k] = v
DictPut(d, k, v) == [kk \in (DOMAIN d) \cup {k} |-> IF kk = k THEN v ELSE d[kk]]

RECURSIVE Pow4(_)
Pow4(n) == IF n = 0 THEN 1 ELSE 4 * Pow4(n - 1)

\* level_weights as they would be with the coarsest level weighted least
level_weights_reversed(lvl) ==
    IF exponential_weighting THEN Pow4(latent_levels - 1 - lvl) ELSE 1

\* level_weights[lvl] of calculate_hierarchical_KL_div_loss
level_weights(lvl) == IF exponential_weighting THEN Pow4(lvl) ELSE 1

\* a wrongly guarded forward: the posterior network runs in every mode
RunsPosteriorAlways(training) == TRUE

\* "if training:" of PHISeg.forward: whether the posterior network is run
RunsPosterior(training) == training

\* PHISeg.forward(patch, mask, training): on this patch (and mask) the
\* posterior network would give run rp and the prior network gives run rq
Forward ==
    /\ lpc = "idle"
    /\ \E training \in BOOLEAN, rp \in EncoderRuns, rq \in EncoderRuns :
         /\ IF RunsPosterior(training)
            THEN /\ posterior_latent_space' = EncoderLists(rp[1], rp[2]).z
                 /\ posterior_mu' = EncoderLists(rp[1], rp[2]).mu
                 /\ posterior_sigma' = EncoderLists(rp[1], rp[2]).sigma
            ELSE UNCHANGED <<posterior_latent_space, posterior_mu, posterior_sigma>>
         /\ prior_latent_space' = EncoderLists(rq[1], rq[2]).z
         /\ prior_mu' = EncoderLists(rq[1], rq[2]).mu
         /\ prior_sigma' = EncoderLists(rq[1], rq[2]).sigma
         /\ last_forward' = [training |-> training, prior |-> rq]
         /\ last_training_forward' =
               IF training THEN [posterior |-> rp] ELSE last_training_forward
    /\ \E d \in Seeds : segm_vector' = DecoderList(d)
    /\ UNCHANGED <<loss_dict, kl, reconstruction, s_accumulated,
                   reconstruction_loss, mean_reconstruction_loss>>
    /\ UNCHANGED <<exponential_weighting, init_beta, callVars, netVars, pureVars>>

\* PHISeg.sample_posterior() under noise seed e
sample_posterior(e) ==
    [n \in 1..latent_levels |->
        Reparameterize(posterior_mu[n], posterior_sigma[n], Noise(e, n - 1))]

\* a sample_prior that reads the stored prior
sample_prior_of_prior(e) ==
    [n \in 1..latent_levels |->
        Reparameterize(prior_mu[n], prior_sigma[n], Noise(e, n - 1))]

\* PHISeg.sample_prior() under noise seed e: mu and sigma are bound to
\* self.posterior_mu and self.posterior_sigma
sample_prior(e) ==
    [n \in 1..latent_levels |->
        Reparameterize(posterior_mu[n], posterior_sigma[n], Noise(e, n - 1))]

\* a call of sample_prior(): it raises on reading self.posterior_mu when
\* forward has never stored a posterior, and returns the list otherwise
SamplePriorCall ==
    /\ lpc = "idle"
    /\ caller' = "sample_prior"
    /\ \E e \in NoiseSeeds :
         IF posterior_mu = Unset
         THEN /\ lpc' = "AttributeError"
              /\ UNCHANGED result
         ELSE /\ lpc' = "sampled"
              /\ result' = sample_prior(e)
    /\ UNCHANGED <<segm, elbo_beta, z_posterior, decoded, layer_reconstruction,
                   ii, loss_tot, totals>>
    /\ UNCHANGED <<exponential_weighting, init_beta, histVars, attrVars,
                   netVars, pureVars>>

\* elbo(segm, beta) or loss(segm) entered: sample_posterior(), which raises
\* when forward has never stored a posterior
ElboCall ==
    /\ lpc = "idle"
    /\ \E c \in {"elbo", "loss"}, m \in Masks, b \in BetaArgs, e \in NoiseSeeds :
         /\ caller' = c
         /\ segm' = m
         /\ elbo_beta' = IF c = "elbo" THEN b ELSE 10
         /\ IF posterior_mu = Unset
            THEN /\ lpc' = "AttributeError"
                 /\ UNCHANGED z_posterior
            ELSE /\ lpc' = "kl"
                 /\ z_posterior' = sample_posterior(e)
    /\ UNCHANGED <<decoded, layer_reconstruction, ii, loss_tot, totals, result>>
    /\ UNCHANGED <<exponential_weighting, init_beta, histVars, attrVars, netVars, pureVars>>

\* calculate_hierarchical_KL_div_loss after the first n iterations of its loop
\* over zip(reversed(range(latent_levels)), reversed(posterior_mu_list),
\* reversed(posterior_sigma_list)): the local loss_tot and self.loss_dict
RECURSIVE KLAfter(_)
KLAfter(n) ==
    IF n = 0 THEN [loss_tot |-> Zero, loss_dict |-> loss_dict]
    ELSE LET before  == KLAfter(n - 1)
             lvl     == latent_levels - n
             mu_i    == PyIndex(posterior_mu, -n)
             sigma_i == PyIndex(posterior_sigma, -n)
             entry   == Times(level_weights(lvl),
                              KL_two_gauss_with_diag_cov(mu_i, sigma_i,
                                  PyIndex(prior_mu, lvl), PyIndex(prior_sigma, lvl)))
         IN  [loss_tot  |-> Plus(before.loss_tot,
                                 Times(KL_divergence_loss_weight, entry)),
              loss_dict |-> DictPut(before.loss_dict, KLKey(lvl), entry)]

\* PHISeg.calculate_hierarchical_KL_div_loss()
calculate_hierarchical_KL_div_loss == KLAfter(latent_levels)

\* self.kl = torch.mean(self.kl_divergence()): the mean of a scalar is the scalar
ElboKL ==
    /\ lpc = "kl"
    /\ kl' = Over(calculate_hierarchical_KL_div_loss.loss_tot, 1)
    /\ loss_dict' = calculate_hierarchical_KL_div_loss.loss_dict
    /\ lpc' = "reconstruct"
    /\ UNCHANGED <<posterior_latent_space, posterior_mu, posterior_sigma,
                   prior_latent_space, prior_mu, prior_sigma, segm_vector,
                   reconstruction, s_accumulated,
                   reconstruction_loss, mean_reconstruction_loss>>
    /\ UNCHANGED <<caller, segm, elbo_beta, z_posterior, decoded,
                   layer_reconstruction, ii, loss_tot, totals, result>>
    /\ UNCHANGED <<exponential_weighting, init_beta, histVars, netVars, pureVars>>

\* self.reconstruct(z_posterior): the Likelihood decodes the sample, then
\* accumulate_output(layer_recon) runs on the very list that is returned as
\* layer_recon; residual_multinoulli_loss is entered with that list
ElboReconstruct ==
    /\ lpc = "reconstruct"
    /\ \E d \in Seeds :
         LET layer_recon == DecoderList(d)
             acc         == accumulate_output(layer_recon)
         IN  /\ decoded' = layer_recon
             /\ reconstruction' = Softmax(acc.s_accum)
             /\ layer_reconstruction' = acc.output_list
    /\ s_accumulated' = [n \in 1..latent_levels |-> Unset]
    /\ loss_tot' = Zero
    /\ totals' = <<>>
    /\ ii' = latent_levels - 1
    /\ lpc' = "residual"
    /\ UNCHANGED <<posterior_latent_space, posterior_mu, posterior_sigma,
                   prior_latent_space, prior_mu, prior_sigma, segm_vector,
                   loss_dict, kl, reconstruction_loss, mean_reconstruction_loss>>
    /\ UNCHANGED <<caller, segm, elbo_beta, z_posterior, result>>
    /\ UNCHANGED <<exponential_weighting, init_beta, histVars, netVars, pureVars>>

\* self.s_accumulated[lvl] of the iteration of residual_multinoulli_loss for lvl
AccumulatedLogits(lvl) ==
    IF lvl = latent_levels - 1
    THEN PyIndex(layer_reconstruction, lvl)
    ELSE MapAdd(PyIndex(s_accumulated, lvl + 1), PyIndex(layer_reconstruction, lvl))

\* one iteration of residual_multinoulli_loss's loop over
\* zip(reversed(range(latent_levels)), reversed(input))
ResidualStep ==
    /\ lpc = "residual"
    /\ LET acc   == AccumulatedLogits(ii)
           entry == CrossEntropyLoss(acc, segm)
       IN  /\ s_accumulated' = PySet(s_accumulated, ii, acc)
           /\ loss_dict' = DictPut(loss_dict, RMKey(ii), entry)
           /\ loss_tot' = Plus(loss_tot, Times(residual_multinoulli_loss_weight, entry))
    /\ totals' = Append(totals, loss_tot')
    /\ ii' = ii - 1
    /\ lpc' = IF ii = 0 THEN "finish" ELSE "residual"
    /\ UNCHANGED <<posterior_latent_space, posterior_mu, posterior_sigma,
                   prior_latent_space, prior_mu, prior_sigma, segm_vector,
                   kl, reconstruction, reconstruction_loss, mean_reconstruction_loss>>
    /\ UNCHANGED <<caller, segm, elbo_beta, z_posterior, decoded,
                   layer_reconstruction, result>>
    /\ UNCHANGED <<exponential_weighting, init_beta, histVars, netVars, pureVars>>

\* the value of elbo as it would be with the KL term subtracted
ElboValueKLSubtracted == Neg(Plus(loss_tot, Neg(Times(beta, kl))))

\* -(self.reconstruction_loss + self.beta * self.kl)
ElboValue == Neg(Plus(loss_tot, Times(beta, kl)))

\* the rest of elbo: the sum and the mean of the scalar reconstruction loss,
\* and the return; loss returns the negation of what elbo returned
ElboReturn ==
    /\ lpc = "finish"
    /\ reconstruction_loss' = loss_tot
    /\ mean_reconstruction_loss' = Over(loss_tot, 1)
    /\ result' = IF caller = "loss" THEN Neg(ElboValue) ELSE ElboValue
    /\ lpc' = "returned"
    /\ UNCHANGED <<posterior_latent_space, posterior_mu, posterior_sigma,
                   prior_latent_space, prior_mu, prior_sigma, segm_vector,
                   loss_dict, kl, reconstruction, s_accumulated>>
    /\ UNCHANGED <<caller, segm, elbo_beta, z_posterior, decoded,
                   layer_reconstruction, ii, loss_tot, totals>>
    /\ UNCHANGED <<exponential_weighting, init_beta, histVars, netVars, pureVars>>

\* PHISeg(input_channels, num_classes, num_filters, beta=..., exponential_weighting=...)
Init ==
    /\ num_filters \in {[j \in 1..n |-> DefaultFilters[1]] : n \in 2..(MaxLevels + 1)}
    /\ exponential_weighting \in BOOLEAN
    /\ init_beta \in BetaArgs
    /\ NoForward
    /\ AttrsUnset
    /\ loss_dict = <<>>
    /\ CallUnset
    /\ lpc = "idle"
    /\ NetIdle
    /\ PureIdle

Next ==
    \/ Forward
    \/ SamplePriorCall
    \/ ElboCall
    \/ ElboKL
    \/ ElboReconstruct
    \/ ResidualStep
    \/ ElboReturn

Spec == Init /\ [][Next]_vars

--------------------------------------------------------------------------
(* The pure functions on drawn inputs.                                     *)

\* the longest row handed to KL_two_gauss_with_diag_cov
MaxElems == 2

\* the largest entry of mu and sigma handed to it
MaxVal == 2

\* the logits a drawn map mixes
LogitChoices == {0, 1}

\* a one-row tensor for every row of n entries
RowTensors(n) == { <<row>> : row \in [1..n -> 0..MaxVal] }

InitKL ==
    /\ \E n \in 1..MaxElems :
         /\ kl_mu \in RowTensors(n)
         /\ kl_sigma \in RowTensors(n)
    /\ kl_out = NoValue
    /\ acc_in = Unset
    /\ acc_list = Unset
    /\ acc_out = Unset
    /\ num_filters = DefaultFilters
    /\ NetIdle
    /\ LossIdle

\* KL_two_gauss_with_diag_cov(mu, sigma, mu, sigma)
SelfDivergence ==
    /\ kl_out = NoValue
    /\ kl_out' = KL_two_gauss_with_diag_cov(kl_mu, kl_sigma, kl_mu, kl_sigma)
    /\ UNCHANGED <<kl_mu, kl_sigma, acc_in, acc_list, acc_out, netVars, lossVars>>

NextKL == SelfDivergence

SpecKL == InitKL /\ [][NextKL]_vars

InitAccum ==
    /\ \E n \in 1..MaxLevels :
         acc_in \in [1..n -> { <<px>> : px \in [1..num_classes -> LogitChoices] }]
    /\ acc_list = acc_in
    /\ acc_out = Unset
    /\ kl_mu = Unset
    /\ kl_sigma = Unset
    /\ kl_out = NoValue
    /\ num_filters = DefaultFilters
    /\ NetIdle
    /\ LossIdle

\* accumulate_output(output_list, use_softmax=False)
Accumulate ==
    /\ acc_out = Unset
    /\ acc_out' = accumulate_output(acc_list).s_accum
    /\ acc_list' = accumulate_output(acc_list).output_list
    /\ UNCHANGED <<acc_in, kl_mu, kl_sigma, kl_out, netVars, lossVars>>

NextAccum == Accumulate

SpecAccum == InitAccum /\ [][NextAccum]_vars

--------------------------------------------------------------------------
(* Properties of the network view (checked under SpecNet).                 *)

RECURSIVE Pow2(_)
Pow2(n) == IF n = 0 THEN 1 ELSE 2 * Pow2(n - 1)

\* s_k: the spatial size after encoder stage k of an input of size n,
\* s_0 = n and s_k = ceil(s_(k-1) / 2)
RECURSIVE StageSize(_, _)
StageSize(n, k) == IF k = 0 THEN n ELSE (StageSize(n, k - 1) + 1) \div 2

Exceptions == {"AssertionError", "RuntimeError", "TypeError", "AttributeError",
               "ValueError"}

\* the patch has the channel count the model was constructed for
PatchFits == patch.c = input_channels

\* H and W are divisible by 2^L
Divisible ==
    /\ patch.h % Pow2(latent_levels) = 0
    /\ patch.w % Pow2(latent_levels) = 0

\* Posterior.forward has returned its three lists
PosteriorReturned == ret # <<>>

\* C2: for a filter list of length k >= 2 and a patch whose height and width
\* are divisible by 2^(k-1), Posterior.forward (mask concatenated) and
\* Prior.forward (no mask) raise nothing and return z, mu, sigma of k-1 entries
\* each, level j of all three having the one shape (2, H/2^(j+1), W/2^(j+1)).
C2_LatentShapes ==
    (PatchFits /\ Divisible) =>
        /\ pc \notin Exceptions
        /\ PosteriorReturned =>
            /\ Len(ret) = 3
            /\ \A r \in 1..3 : Len(ret[r]) = Len(num_filters) - 1
            /\ \A j \in 0..(Len(num_filters) - 2) :
                 /\ ret[1][j + 1] = Tensor(2, patch.h \div Pow2(j + 1),
                                              patch.w \div Pow2(j + 1))
                 /\ ret[2][j + 1] = ret[1][j + 1]
                 /\ ret[3][j + 1] = ret[1][j + 1]

\* C2's case: both encoders have returned three levels for a divisible patch
C2_Witness ==
    /\ PatchFits /\ Divisible /\ PosteriorReturned
    /\ latent_levels = 3
    /\ is_posterior
    /\ patch.h = 16 /\ patch.w = 16

\* C3: Likelihood.forward on the latents a Prior built from the same filter
\* list returned raises nothing (every stack gets the channel count it was
\* built with, both assertions of every concatenation hold) and returns one
\* map per level, each of num_classes channels and 128 x 128; the features the
\* map of level j is computed from have num_filters[j] channels and twice the
\* spatial size of z[j].
C3_LikelihoodShapes ==
    (PosteriorReturned /\ ~is_posterior) =>
        /\ pc \notin Exceptions
        /\ pc = "done" =>
            /\ Len(lik_ret) = latent_levels
            /\ \A j \in 0..(latent_levels - 1) :
                 /\ lik_ret[j + 1] = Tensor(num_classes, 128, 128)
                 /\ post_c[j + 1] = Tensor(NF(j), 2 * z[j + 1].h, 2 * z[j + 1].w)

\* C3's case: the decoder has returned for a three-level Prior whose filter
\* widths differ from level to level
C3_Witness ==
    /\ pc = "done" /\ ~is_posterior
    /\ num_filters = DefaultFilters
    /\ Len(lik_ret) = 3

\* the encoder output of stage k, from the patch alone
EncoderOutput(k) ==
    Tensor(NF(k), StageSize(patch.h, k), StageSize(patch.w, k))

\* C9: Posterior.forward samples the levels in the order L-1, ..., 0; level
\* L-1 from the output of the deepest encoder stage alone; level j < L-1 from
\* z[j+1], already assigned, upsampled x2 and convolved, concatenated with the
\* encoder output of stage j+1; no sampling input reads an unassigned z.
C9_TopDownOrder ==
    /\ pc \notin {"TypeError", "AttributeError"} \/ PosteriorReturned
    /\ \A k \in 1..Len(sampled) :
         LET e == sampled[k]
         IN  /\ e.level = latent_levels - k
             /\ k = 1 =>
                  /\ e.from = -1
                  /\ e.stage = latent_levels
                  /\ e.input = EncoderOutput(latent_levels)
             /\ k > 1 =>
                  /\ e.from = e.level + 1
                  /\ sampled[k - 1].level = e.from
                  /\ IsTensor(e.latent)
                  /\ e.latent = z[e.from + 1]
                  /\ e.stage = e.level + 1
                  /\ e.bridge = EncoderOutput(e.level + 1)
                  /\ e.input = Tensor(2 * NF(0) + e.bridge.c,
                                      2 * e.latent.h, 2 * e.latent.w)

\* C9's case: all three levels of a three-level encoder have been sampled
C9_Witness ==
    /\ Len(sampled) = 3
    /\ sampled[3].level = 0
    /\ sampled[3].from = 1
    /\ PosteriorReturned

\* 2 * s_(k+1) # s_k for some k in 1..L-1, for the height or the width
SkipMismatch ==
    \E k \in 1..(latent_levels - 1) :
        \/ 2 * StageSize(patch.h, k + 1) # StageSize(patch.h, k)
        \/ 2 * StageSize(patch.w, k + 1) # StageSize(patch.w, k)

\* Posterior.forward was left by a failed assertion
PosteriorAborted == pc = "AssertionError" /\ ~PosteriorReturned

\* C10: Posterior.forward ends in an assertion failure, returning nothing,
\* exactly when 2 * s_(k+1) # s_k for some k in 1..L-1 (height or width):
\* with such a k it never returns and never reaches the concatenation with
\* unequal sizes, without one no assertion fails; and every latent that was
\* concatenated had, upsampled, the spatial size of its skip connection.
C10_AssertIffMismatch ==
    PatchFits =>
        /\ PosteriorAborted => SkipMismatch
        /\ SkipMismatch => (~PosteriorReturned /\ pc # "RuntimeError")
        /\ (pc \in Exceptions /\ ~PosteriorReturned) => PosteriorAborted
        /\ \A k \in 2..Len(sampled) :
             /\ 2 * sampled[k].latent.h = sampled[k].bridge.h
             /\ 2 * sampled[k].latent.w = sampled[k].bridge.w

\* C10's case: a three-level encoder aborted on a patch whose first pooled
\* size is odd, after the coarsest level had been sampled
C10_Witness ==
    /\ PosteriorAborted
    /\ PatchFits
    /\ latent_levels = 3
    /\ patch.h = 6
    /\ Len(sampled) >= 1

--------------------------------------------------------------------------
(* Properties of the loss view (checked under Spec) and of the pure        *)
(* functions (checked under SpecKL and SpecAccum).                         *)

\* a <= b for two loss values
Leq(a, b) ==
    \/ a.big < b.big
    \/ a.big = b.big /\ a.mid < b.mid
    \/ a.big = b.big /\ a.mid = b.mid /\ a.fix <= b.fix

\* the elementwise sum of the maps of levels lvl..L-1 of a list
RECURSIVE SumFrom(_, _)
SumFrom(list, lvl) ==
    IF lvl = Len(list) - 1 THEN list[lvl + 1]
    ELSE MapAdd(list[lvl + 1], SumFrom(list, lvl + 1))

\* residual_multinoulli_loss has assigned the scored logits of level lvl
Scored(lvl) ==
    /\ lpc \in {"residual", "finish", "returned"}
    /\ s_accumulated[lvl + 1] # Unset

\* C1: in elbo, the logits cross-entropy is applied to at level ii are the
\* elementwise sum of the maps the Likelihood decoded for levels ii..L-1; at
\* the coarsest level they are the Likelihood's map of level L-1 alone.
C1_ScoredLogitsAreResidualSums ==
    \A lvl \in 0..(latent_levels - 1) :
        Scored(lvl) => s_accumulated[lvl + 1] = SumFrom(decoded, lvl)

\* C4: the divergence of a Gaussian from itself is zero (to the four decimals
\* kept, over which the stabilizer has no effect), whatever mu and sigma >= 0.
C4_SelfDivergenceIsZero ==
    kl_out # NoValue => kl_out = Zero

\* w(ii): 4^ii under exponential weighting, 1 otherwise
LevelWeight(lvl) == IF exponential_weighting THEN Pow4(lvl) ELSE 1

\* w(ii) * KL(posterior of level ii || prior of level ii)
WeightedKL(lvl) ==
    Times(LevelWeight(lvl),
          KL_two_gauss_with_diag_cov(posterior_mu[lvl + 1], posterior_sigma[lvl + 1],
                                     prior_mu[lvl + 1], prior_sigma[lvl + 1]))

\* the sum of the weighted terms of all levels
HierarchicalKL == SumNum([n \in 1..latent_levels |-> WeightedKL(n - 1)])

\* the keys of loss_dict that name a KL entry
KLKeys == {k \in DOMAIN loss_dict : k[1] = "KL_divergence_loss_lvl"}

\* calculate_hierarchical_KL_div_loss has returned
KLComputed == lpc \in {"reconstruct", "residual", "finish", "returned"}

\* C5: calculate_hierarchical_KL_div_loss returns the sum over all levels ii of
\* w(ii) * KL(posterior ii || prior ii), the posterior first and both of the
\* same level, w(ii) = 4^ii under exponential weighting and 1 otherwise; and
\* loss_dict then holds exactly one KL entry per level, the weighted term.
C5_HierarchicalKL ==
    KLComputed =>
        /\ kl = HierarchicalKL
        /\ KLKeys = {KLKey(lvl) : lvl \in 0..(latent_levels - 1)}
        /\ \A lvl \in 0..(latent_levels - 1) : loss_dict[KLKey(lvl)] = WeightedKL(lvl)

\* C5's case: three levels under exponential weighting, posterior and prior
\* differing, the divergence just computed
C5_Witness ==
    /\ lpc = "reconstruct"
    /\ latent_levels = 3
    /\ exponential_weighting
    /\ posterior_mu # prior_mu
    /\ posterior_sigma # prior_sigma
    /\ kl # Zero

\* the unit-weight sum of the per-level residual cross-entropy losses
ReconstructionTotal ==
    SumNum([n \in 1..latent_levels |-> CrossEntropyLoss(s_accumulated[n], segm)])

\* C6: elbo returns -(reconstruction_total + beta * KL_total), the
\* reconstruction total being the unit-weight sum of the per-level residual
\* cross-entropy losses and the KL total the hierarchical KL sum; loss returns
\* the negation, reconstruction_total + beta * KL_total.
C6_ElboComposition ==
    lpc = "returned" =>
        /\ caller = "elbo" =>
             result = Neg(Plus(ReconstructionTotal, Times(beta, HierarchicalKL)))
        /\ caller = "loss" =>
             result = Plus(ReconstructionTotal, Times(beta, HierarchicalKL))
        /\ reconstruction_loss = ReconstructionTotal
        /\ \A lvl \in 0..(latent_levels - 1) :
             loss_dict[RMKey(lvl)] = CrossEntropyLoss(s_accumulated[lvl + 1], segm)

\* C6's case: loss has returned for three levels with both terms non-zero
C6_Witness ==
    /\ lpc = "returned"
    /\ caller = "loss"
    /\ latent_levels = 3
    /\ kl # Zero
    /\ reconstruction_loss # Zero
    /\ result # reconstruction_loss

\* the running total before iteration k (1-based) of residual_multinoulli_loss
TotalBefore(k) == IF k = 1 THEN Zero ELSE totals[k - 1]

\* C8: the running total of residual_multinoulli_loss never decreases as the
\* levels are included from the coarsest to the finest: every level adds one
\* cross-entropy term >= 0, and the returned total is the sum of exactly L
\* such terms.
C8_RunningTotalMonotone ==
    /\ \A k \in 1..Len(totals) :
         /\ Leq(TotalBefore(k), totals[k])
         /\ Leq(Zero, loss_dict[RMKey(latent_levels - k)])
         /\ totals[k] = Plus(TotalBefore(k), loss_dict[RMKey(latent_levels - k)])
    /\ lpc \in {"finish", "returned"} =>
         /\ Len(totals) = latent_levels
         /\ loss_tot = totals[latent_levels]

\* C8's case: three levels included, the total having grown with each
C8_Witness ==
    /\ lpc = "finish"
    /\ latent_levels = 3
    /\ Len(totals) = 3
    /\ ~Leq(totals[1], Zero)
    /\ ~Leq(totals[2], totals[1])
    /\ ~Leq(totals[3], totals[2])

\* the elementwise sum of all maps of a list
MapSum(list) == SumFrom(list, 0)

\* a list reordered by a permutation of its positions
Reordered(list, perm) == [k \in 1..Len(list) |-> list[perm[k]]]

\* C7: accumulate_output(output_list, use_softmax=False) returns the
\* elementwise sum of all N maps, and returns the same for every reordering of
\* the list.
C7_AccumulateIsOrderFreeSum ==
    acc_out # Unset =>
        /\ acc_out = MapSum(acc_in)
        /\ \A perm \in Permutations(1..Len(acc_in)) :
             accumulate_output(Reordered(acc_in, perm)).s_accum = acc_out

\* C7's case: three maps, no two neighbours alike, accumulated
C7_Witness ==
    /\ acc_out # Unset
    /\ Len(acc_in) = 3
    /\ acc_in[1] # acc_in[2]
    /\ acc_in[2] # acc_in[3]
    /\ acc_in[1] # acc_in[3]

--------------------------------------------------------------------------
(* The stored posterior and prior over a sequence of calls.                *)

\* the three lists an encoder run gives
RunLists(r) == EncoderLists(r[1], r[2])

\* the hierarchical KL sum between the posterior of run rp and the prior of
\* run rq
KLOfRuns(rp, rq) ==
    SumNum([n \in 1..latent_levels |->
        Times(LevelWeight(n - 1),
              KL_two_gauss_with_diag_cov(RunLists(rp).mu[n], RunLists(rp).sigma[n],
                                         RunLists(rq).mu[n], RunLists(rq).sigma[n]))])

\* elbo or loss has been called
ElboCalled == caller \in {"elbo", "loss"}

\* C11: the stored posterior is the one of the latest forward(training=True)
\* (unset before any), the stored prior is the one of the latest forward of
\* either mode; elbo / loss raises exactly when no training-mode forward came
\* before it, and otherwise its KL is between the posterior of the latest
\* training-mode forward and the prior of the latest forward.
C11_PosteriorOnlyFromTraining ==
    /\ IF last_training_forward = Unset
       THEN /\ posterior_latent_space = Unset
            /\ posterior_mu = Unset
            /\ posterior_sigma = Unset
       ELSE /\ posterior_latent_space = RunLists(last_training_forward.posterior).z
            /\ posterior_mu = RunLists(last_training_forward.posterior).mu
            /\ posterior_sigma = RunLists(last_training_forward.posterior).sigma
    /\ IF last_forward = Unset
       THEN /\ prior_latent_space = Unset
            /\ prior_mu = Unset
            /\ prior_sigma = Unset
       ELSE /\ prior_latent_space = RunLists(last_forward.prior).z
            /\ prior_mu = RunLists(last_forward.prior).mu
            /\ prior_sigma = RunLists(last_forward.prior).sigma
    /\ ElboCalled => (lpc = "AttributeError" <=> last_training_forward = Unset)
    /\ (ElboCalled /\ KLComputed) =>
         kl = KLOfRuns(last_training_forward.posterior, last_forward.prior)

\* C11's case: a forward(training=True), later a forward(training=False)
\* whose prior run differs from the stored posterior run, then elbo returning
\* with a KL between the two
C11_Witness ==
    /\ ElboCalled
    /\ lpc = "returned"
    /\ last_forward # Unset
    /\ last_training_forward # Unset
    /\ ~last_forward.training
    /\ last_forward.prior # last_training_forward.posterior
    /\ kl # Zero
    /\ kl # KLOfRuns(last_forward.prior, last_forward.prior)

--------------------------------------------------------------------------
(* The KL weight of elbo.                                                  *)

\* what elbo (or loss) returns when the KL total is weighted by w, from the
\* two totals the call stored
ElboWeighted(w) ==
    LET v == Neg(Plus(reconstruction_loss, Times(w, kl)))
    IN  IF caller = "loss" THEN Neg(v) ELSE v

\* C12: whatever beta was passed to the constructor and whatever beta was
\* passed to elbo, the returned value weights the KL total by 10; it is not
\* the value either argument would give when that argument is not 10 and the
\* KL total is not zero.
C12_KLWeightIsTen ==
    (ElboCalled /\ lpc = "returned") =>
        /\ result = ElboWeighted(10)
        /\ (kl # Zero /\ init_beta # 10) => result # ElboWeighted(init_beta)
        /\ (kl # Zero /\ elbo_beta # 10) => result # ElboWeighted(elbo_beta)

\* C12's case: PHISeg(beta=1), elbo(segm, beta=1) returned with a KL total
\* that is not zero
C12_Witness ==
    /\ lpc = "returned"
    /\ caller = "elbo"
    /\ init_beta = 1
    /\ elbo_beta = 1
    /\ kl # Zero
    /\ result # ElboWeighted(1)

--------------------------------------------------------------------------
(* sample_prior.                                                           *)

\* sample_prior() has been called
SamplePriorCalled == caller = "sample_prior"

\* the lists sample_posterior() can return in the current state
PosteriorSamples == {sample_posterior(e) : e \in NoiseSeeds}

\* the lists that mu[i] + sigma[i] * eps gives from the stored prior
PriorSamples ==
    {[n \in 1..latent_levels |->
         Reparameterize(prior_mu[n], prior_sigma[n], Noise(e, n - 1))] :
       e \in NoiseSeeds}

\* C13: sample_prior() raises exactly when no forward(training=True) came
\* before it (forward(training=False) alone does not help); otherwise it
\* returns one of the lists sample_posterior() returns, L entries, each
\* mu[i] + sigma[i] * eps of the stored posterior of the latest training-mode
\* forward, whatever the stored prior is.
C13_SamplePriorReadsPosterior ==
    SamplePriorCalled =>
        /\ lpc \in {"sampled", "AttributeError"}
        /\ lpc = "AttributeError" <=> last_training_forward = Unset
        /\ lpc = "sampled" =>
             /\ Len(result) = latent_levels
             /\ result \in PosteriorSamples
             /\ \E e \in NoiseSeeds : \A n \in 1..latent_levels :
                  result[n] =
                    Reparameterize(RunLists(last_training_forward.posterior).mu[n],
                                   RunLists(last_training_forward.posterior).sigma[n],
                                   Noise(e, n - 1))

\* C13's case: three levels, a stored prior other than the stored posterior,
\* and sample_prior() returning a list that no sample from the prior equals
C13_Witness ==
    /\ SamplePriorCalled
    /\ lpc = "sampled"
    /\ latent_levels = 3
    /\ prior_mu # posterior_mu
    /\ prior_sigma # posterior_sigma
    /\ result \notin PriorSamples

==========================================================================
